---- MODULE Spec2Model ----
(***************************************************************************)
(* Model of the display-interface crate (src/src/lib.rs): the DisplayError *)
(* enum, the DataFormat carrier with its two From conversions, and the     *)
(* WriteOnlyDataCommand trait.  The trait has no implementation in the     *)
(* crate, so a call is modelled by what its signature permits in safe      *)
(* Rust: it holds the adapter by `&mut self` for its duration, may write   *)
(* through a `&mut [u16]` it was handed and through nothing else, and      *)
(* returns any value of Result<(), DisplayError>.                          *)
(***************************************************************************)
EXTENDS Integers, Sequences, FiniteSets, TLC

\* Longest caller buffer considered.
MaxLen == 2
\* Number of callers competing for one adapter.
NumCallers == 2

\* Sample element values of u8 and u16 buffers (0x01, 0xFF; 0x0102, 0x0201).
ByteVals == {1, 255}
WordVals == {258, 513}

Callers == 1..NumCallers

VARIABLES
    mem,      \* the caller's buffer: [elem, data]
    pc,       \* driver position: "idle", "built", "calling", "returned"
    how,      \* how the carrier was built: "none", "from", "explicit"
    arg,      \* the slice handed to the constructor of the carrier
    argElems, \* the elements arg referred to when the carrier was built
    carrier,  \* the DataFormat value
    op,       \* trait method being called
    result,   \* value returned by the call
    callpc,   \* per caller: position with respect to the shared adapter
    callop,   \* per caller: trait method called
    callres   \* per caller: value returned

vars == <<mem, pc, how, arg, argElems, carrier, op, result, callpc, callop, callres>>
drv  == <<mem, pc, how, arg, argElems, carrier, op, result>>
shr  == <<callpc, callop, callres>>

----------------------------------------------------------------------------
\* enum DisplayError: five unit variants (payload is the empty tuple).

Unit == << >>

DisplayError_extra ==
    { [variant |-> v, payload |-> Unit] :
        v \in {"InvalidFormatError", "BusWriteError", "DCError", "CSError",
               "DataFormatNotImplemented", "Other"} }

DisplayError ==
    { [variant |-> v, payload |-> Unit] :
        v \in {"InvalidFormatError", "BusWriteError", "DCError", "CSError",
               "DataFormatNotImplemented"} }

\* Result<(), DisplayError>
Ok == [variant |-> "Ok", payload |-> Unit]
ResultType == {Ok} \cup DisplayError

NoResult == [variant |-> "none", payload |-> Unit]

----------------------------------------------------------------------------
\* Slices are fat pointers into the caller's buffer.

NoSlice == [elem |-> "none", ptr |-> 0, len |-> 0]

Slices(m) ==
    { [elem |-> m.elem, ptr |-> p, len |-> n] :
        p \in 0..Len(m.data), n \in 0..Len(m.data) }

SlicesOf(m) == { s \in Slices(m) : s.ptr + s.len <= Len(m.data) }

Elems(m, s) == SubSeq(m.data, s.ptr + 1, s.ptr + s.len)

\* enum DataFormat<'a>: which borrow each variant carries.
Variants == {"U8", "U16", "U16BE", "U16LE"}

ElemOf(tag) == IF tag = "U8" THEN "u8" ELSE "u16"

Mutable_U16 == [tag \in Variants |-> tag \in {"U16", "U16BE", "U16LE"}]

Mutable == [tag \in Variants |-> tag \in {"U16BE", "U16LE"}]

NoCarrier == [tag |-> "none", slice |-> NoSlice]

\* impl From<&[u8]> for DataFormat
From_u8_trunc(arr_ref) ==
    [tag |-> "U8",
     slice |-> [arr_ref EXCEPT !.len = IF @ > 0 THEN @ - 1 ELSE 0]]

From_u8(arr_ref) == [tag |-> "U8", slice |-> arr_ref]

\* impl From<&[u16]> for DataFormat
From_u16_shift(arr_ref) ==
    [tag |-> "U16",
     slice |-> IF arr_ref.len > 0
               THEN [arr_ref EXCEPT !.ptr = @ + 1, !.len = @ - 1]
               ELSE arr_ref]

From_u16_be(arr_ref) == [tag |-> "U16BE", slice |-> arr_ref]

From_u16(arr_ref) == [tag |-> "U16", slice |-> arr_ref]

\* `match` on a carrier: the slice bound by the arm of variant tag, if taken.
Match(df, tag) == IF df.tag = tag THEN df.slice ELSE NoSlice

----------------------------------------------------------------------------
\* Buffers the driver may own.

SeqsUpTo(S, n) == UNION { [1..k -> S] : k \in 0..n }

Buffers ==
    { [elem |-> "u8", data |-> d] : d \in SeqsUpTo(ByteVals, MaxLen) } \cup
    { [elem |-> "u16", data |-> d] : d \in SeqsUpTo(WordVals, MaxLen) }

ValsOf(elem) == IF elem = "u8" THEN ByteVals ELSE WordVals

Methods == {"send_commands", "send_data"}

\* Receiver of both trait methods: `&mut self`.
Receiver_shared == "shared"

Receiver == "mut"

\* Borrow rule for taking a receiver of the given kind while the callers in
\* active already hold one of the same kind.
CanBorrow(kind, active) == IF kind = "mut" THEN active = {} ELSE TRUE

----------------------------------------------------------------------------
\* Single driver: build a carrier, call the adapter, drop the carrier.

InitDrv ==
    /\ mem \in Buffers
    /\ pc = "idle"
    /\ how = "none"
    /\ arg = NoSlice
    /\ argElems = << >>
    /\ carrier = NoCarrier
    /\ op = "none"
    /\ result = NoResult

InitShr ==
    /\ callpc = [c \in Callers |-> "idle"]
    /\ callop = [c \in Callers |-> "none"]
    /\ callres = [c \in Callers |-> NoResult]

Init == InitDrv /\ InitShr

\* let df: DataFormat = s.into();
ConvertFrom ==
    /\ pc = "idle"
    /\ \E s \in SlicesOf(mem) :
        /\ arg' = s
        /\ argElems' = Elems(mem, s)
        /\ carrier' = IF s.elem = "u8" THEN From_u8(s) ELSE From_u16(s)
    /\ how' = "from"
    /\ pc' = "built"
    /\ UNCHANGED <<mem, op, result, shr>>

\* let df = DataFormat::U16BE(s) and the other variants written out.
Construct ==
    /\ pc = "idle"
    /\ \E s \in SlicesOf(mem), tag \in Variants :
        /\ ElemOf(tag) = s.elem
        /\ arg' = s
        /\ argElems' = Elems(mem, s)
        /\ carrier' = [tag |-> tag, slice |-> s]
    /\ how' = "explicit"
    /\ pc' = "built"
    /\ UNCHANGED <<mem, op, result, shr>>

\* adapter.send_commands(df) / adapter.send_data(df): the call starts.
BeginCall ==
    /\ pc = "built"
    /\ \E m \in Methods : op' = m
    /\ pc' = "calling"
    /\ UNCHANGED <<mem, how, arg, argElems, carrier, result, shr>>

\* The implementation stores through the &mut [u16] of the carrier.
AdapterWrite ==
    /\ pc = "calling"
    /\ carrier.tag \in Variants
    /\ Mutable[carrier.tag]
    /\ \E i \in 1..carrier.slice.len, v \in ValsOf(mem.elem) :
        /\ carrier.slice.ptr + i <= Len(mem.data)
        /\ mem.data[carrier.slice.ptr + i] # v
        /\ mem' = [mem EXCEPT !.data[carrier.slice.ptr + i] = v]
    /\ UNCHANGED <<pc, how, arg, argElems, carrier, op, result, shr>>

\* The call returns a Result<(), DisplayError>.
Return ==
    /\ pc = "calling"
    /\ \E r \in ResultType : result' = r
    /\ pc' = "returned"
    /\ UNCHANGED <<mem, how, arg, argElems, carrier, op, shr>>

\* The carrier goes out of scope; the buffer is the caller's again.
Drop ==
    /\ pc = "returned"
    /\ pc' = "idle"
    /\ how' = "none"
    /\ arg' = NoSlice
    /\ argElems' = << >>
    /\ carrier' = NoCarrier
    /\ op' = "none"
    /\ result' = NoResult
    /\ UNCHANGED <<mem, shr>>

Next == ConvertFrom \/ Construct \/ BeginCall \/ AdapterWrite \/ Return \/ Drop

Spec == Init /\ [][Next]_vars

----------------------------------------------------------------------------
\* Several callers and one adapter.

SharedCall ==
    \E c \in Callers, m \in Methods :
        /\ callpc[c] = "idle"
        /\ CanBorrow(Receiver, { d \in Callers : callpc[d] = "calling" })
        /\ callpc' = [callpc EXCEPT ![c] = "calling"]
        /\ callop' = [callop EXCEPT ![c] = m]
        /\ UNCHANGED <<callres, drv>>

SharedReturn ==
    \E c \in Callers, r \in ResultType :
        /\ callpc[c] = "calling"
        /\ callpc' = [callpc EXCEPT ![c] = "returned"]
        /\ callres' = [callres EXCEPT ![c] = r]
        /\ UNCHANGED <<callop, drv>>

SharedForget ==
    \E c \in Callers :
        /\ callpc[c] = "returned"
        /\ callpc' = [callpc EXCEPT ![c] = "idle"]
        /\ callop' = [callop EXCEPT ![c] = "none"]
        /\ callres' = [callres EXCEPT ![c] = NoResult]
        /\ UNCHANGED drv

NextShared == SharedCall \/ SharedReturn \/ SharedForget

InitShared == mem = [elem |-> "u8", data |-> << >>] /\ Init

SpecShared == InitShared /\ [][NextShared]_vars

----------------------------------------------------------------------------
\* Properties.

\* C1: converting a byte slice s with From<&[u8]> and matching the result
\* takes the U8 arm, and the slice bound there is s itself: same start, same
\* length, same elements in the same order.
C1_BytesRoundTrip ==
    (pc = "built" /\ how = "from" /\ arg.elem = "u8") =>
        /\ carrier.tag = "U8"
        /\ Match(carrier, "U8") = arg
        /\ Match(carrier, "U8").len = Len(argElems)
        /\ Elems(mem, Match(carrier, "U8")) = argElems

C1_Witness ==
    /\ pc = "built" /\ how = "from" /\ arg.elem = "u8"
    /\ arg.len >= 2
    /\ argElems[1] # argElems[2]
    /\ Elems(mem, Match(carrier, "U8")) = argElems

\* C2: converting a native-order u16 slice s with From<&[u16]> and matching
\* the result takes the U16 arm, and the slice bound there is s itself: same
\* length and the same 16-bit values in the same order, none byte-swapped.
C2_WordsRoundTrip ==
    (pc = "built" /\ how = "from" /\ arg.elem = "u16") =>
        /\ carrier.tag = "U16"
        /\ Match(carrier, "U16") = arg
        /\ Match(carrier, "U16").len = Len(argElems)
        /\ \A i \in 1..Len(argElems) :
               Elems(mem, Match(carrier, "U16"))[i] = argElems[i]

C2_Witness ==
    /\ pc = "built" /\ how = "from" /\ arg.elem = "u16"
    /\ arg.len >= 2
    /\ argElems[1] = 258 /\ argElems[2] = 513
    /\ Elems(mem, Match(carrier, "U16")) = <<258, 513>>

\* C3: a carrier obtained by an implicit conversion is never U16BE or U16LE;
\* a byte slice never becomes a 16-bit variant and a u16 slice never becomes
\* the U8 variant.
C3_OnlyTwoConversions ==
    (how = "from") =>
        /\ carrier.tag \notin {"U16BE", "U16LE"}
        /\ (arg.elem = "u8" => carrier.tag = "U8")
        /\ (arg.elem = "u16" => carrier.tag = "U16")

C3_Witness ==
    /\ how = "from" /\ pc = "calling"
    /\ arg.elem = "u16" /\ arg.len >= 1
    /\ carrier.tag = "U16"

\* C4: at most one send_commands / send_data call is in progress on the
\* adapter, however the callers interleave.
C4_OneTransmissionAtATime ==
    Cardinality({ c \in Callers : callpc[c] = "calling" }) <= 1

C4_Witness ==
    \E c \in Callers, d \in Callers :
        /\ c # d
        /\ callpc[c] = "calling" /\ callop[c] = "send_data"
        /\ callpc[d] = "returned" /\ callop[d] = "send_commands"

\* C9: a call that has returned yielded Ok or one of InvalidFormatError,
\* BusWriteError, DCError, CSError, DataFormatNotImplemented; these are five
\* different values and none carries a payload.
C9_ResultIsOkOrOneOfFive ==
    /\ Cardinality(DisplayError) = 5
    /\ \A e \in DisplayError : e.payload = << >>
    /\ (pc = "returned") =>
        /\ result.variant \in {"Ok", "InvalidFormatError", "BusWriteError",
                                "DCError", "CSError",
                                "DataFormatNotImplemented"}
        /\ result.payload = << >>

C9_Witness ==
    /\ pc = "returned"
    /\ op = "send_data"
    /\ result.variant = "DataFormatNotImplemented"

\* C10: every step that changes the caller's buffer is taken inside a call
\* whose carrier is U16BE or U16LE; a conversion, and a call with a U8 or
\* U16 carrier, leave the buffer as it was, whatever the call returns.
C10_BufferFrame ==
    [][ (mem' # mem) =>
            /\ pc = "calling" /\ pc' = "calling"
            /\ carrier.tag \in {"U16BE", "U16LE"} ]_vars

C10_Witness ==
    /\ pc = "returned"
    /\ carrier.tag = "U16" /\ arg.len >= 1
    /\ result.variant = "BusWriteError"
    /\ Elems(mem, arg) = argElems

====
